---- MODULE Spec2Model ----
(***************************************************************************)
(* Model of the AEDT optimizer plug-in: the launcher script                *)
(* (launch_optimizer_from_aedt.py) that attaches to the running AEDT       *)
(* session and spawns the GUI, and the GUI (optimizer_gui.py) whose        *)
(* button runs connect -> solve -> fetch -> display -> release.            *)
(***************************************************************************)
EXTENDS Integers, Sequences, FiniteSets, TLC

\* ------------------------------------------------------------------ bounds
\* Button clicks (runs of run_simulation) explored per GUI process.
MaxRuns == 2
\* Longest result curve the SDK returns.
MaxPoints == 6
\* Deepest nesting of run_simulation calls (a click delivered by the nested
\* event loop of a modal dialog calls run_simulation on top of the open one).
MaxDepth == 2

\* ------------------------------------------------------- program constants
\* max_to_show = min(5, n)
PreviewLimit == 5

\* ------------------------------------------------------------ Python values
\* A Python value is a record of its type and its text, so that the string
\* "0" of the environment and the integer 0 of the launcher's default differ.
PyNone == [type |-> "NoneType", val |-> ""]
PyStr(s) == [type |-> "str", val |-> s]
PyInt(s) == [type |-> "int", val |-> s]

\* bool(v) as `if not port:` and `if project_path:` compute it.
Truthy(v) ==
    CASE v.type = "NoneType" -> FALSE
      [] v.type = "str" -> v.val # ""
      [] v.type = "int" -> v.val # "0"

\* The strings int() accepts, among those the model draws.
NumericStrings == {"0", "50051"}

\* int(v) raises for None (TypeError) and for a non-numeric string (ValueError).
IntRaises(v) == v.type = "NoneType" \/ (v.type = "str" /\ v.val \notin NumericStrings)

IntOf(v) == PyInt(v.val)

Min(a, b) == IF a < b THEN a ELSE b

\* --------------------------------------------------------------- environment
PORT == "PYAEDT_SCRIPT_PORT"
VERSION == "PYAEDT_SCRIPT_VERSION"

\* Values the host application (or a shell) may have put in the environment.
PortStrings == {"", "50051", "abc"}
VersionStrings == {"2024.1"}

\* os.environ: a function from the names that are set to their strings.
EnvOK(e) ==
    /\ (PORT \in DOMAIN e => e[PORT] \in PortStrings)
    /\ (VERSION \in DOMAIN e => e[VERSION] \in VersionStrings)

Environments ==
    { e \in UNION { [names -> PortStrings \cup VersionStrings] : names \in SUBSET {PORT, VERSION} } :
        EnvOK(e) }

\* os.environ.get(name, default)
EnvGet(e, name, default) == IF name \in DOMAIN e THEN PyStr(e[name]) ELSE default

DefaultVersion == PyStr("2025.2")

\* A launcher that defaulted each variable on its own, as the GUI does.
LauncherLocator_EachAlone(e) ==
    <<EnvGet(e, PORT, PyInt("0")), EnvGet(e, VERSION, DefaultVersion)>>

\* Launcher, lines 13-18: both variables or the defaults.
LauncherLocator(e) ==
    IF PORT \in DOMAIN e /\ VERSION \in DOMAIN e
    THEN <<PyStr(e[PORT]), PyStr(e[VERSION])>>
    ELSE <<PyInt("0"), DefaultVersion>>

\* A GUI that took the launcher's default port.
GuiPort_Defaulted(e) == EnvGet(e, PORT, PyStr("0"))

\* GUI, line 68: the port has no default.
GuiPort(e) == EnvGet(e, PORT, PyNone)

\* GUI, line 69: the version falls back on its own.
GuiVersion(e) == EnvGet(e, VERSION, DefaultVersion)

\* A check for an unset port only (`if port is None:`).
PortMissing_NoneOnly(p) == p.type = "NoneType"

\* GUI, line 71: `if not port:`
PortMissing(p) == ~Truthy(p)

\* ---------------------------------------------------------------- log lines
Line(msg, args) == [msg |-> msg, args |-> args]

\* ------------------------------------------------------------------- state
VARIABLES
    env,            \* os.environ, inherited by the GUI from the launcher
    scriptExists,   \* optimizer_gui.py lies beside the launcher
    sdkImport,      \* what importing PyAEDT does in the GUI's interpreter
    \* launcher (module-level script)
    L_pc, L_port, L_version, L_desktop, L_project_path, cmd, L_releases, L_log,
    \* GUI process
    guiProc,        \* "NotStarted", "Spawned" (Popen returned), "Running" (window shown)
    argv,           \* sys.argv of the GUI
    project_path, desktop, app, start_btn, log,   \* MainWindow fields
    run,            \* the innermost run_simulation call in progress
    suspended,      \* run_simulation calls waiting below it in nested event loops
    runs,           \* clicks handled so far
    session         \* the host's view: handles attached, handles passed to release

launcherVars == <<L_pc, L_port, L_version, L_desktop, L_project_path, cmd, L_releases, L_log>>
windowVars == <<project_path, desktop, app, start_btn, log>>
guiVars == <<guiProc, argv, project_path, desktop, app, start_btn, log, run, suspended, runs, session>>
vars == <<env, scriptExists, sdkImport, L_pc, L_port, L_version, L_desktop, L_project_path,
          cmd, L_releases, L_log, guiProc, argv, project_path, desktop, app, start_btn, log,
          run, suspended, runs, session>>

\* ----------------------------------------------------------------- launcher
PYTHON_EXE == "python.exe"
GUI_SCRIPT == "optimizer_gui.py"

\* What desktop.project_path() may return: unsaved project or a path.
ProjectPaths == {"", "C:/proj/antenna.aedt"}

\* A command that always carried the path argument.
BuildCmd_AlwaysPath(path) == <<PYTHON_EXE, GUI_SCRIPT, path>>

\* Lines 55-57: the command, with the path appended only if it is truthy.
BuildCmd(path) ==
    IF Truthy(PyStr(path)) THEN <<PYTHON_EXE, GUI_SCRIPT, path>> ELSE <<PYTHON_EXE, GUI_SCRIPT>>

\* Lines 13-18.
L_ReadLocator ==
    /\ L_pc = "Locator"
    /\ L_port' = LauncherLocator(env)[1]
    /\ L_version' = LauncherLocator(env)[2]
    /\ L_pc' = "Attach"
    /\ UNCHANGED <<env, scriptExists, sdkImport, L_desktop, L_project_path, cmd,
                   L_releases, L_log>>
    /\ UNCHANGED guiVars

\* Lines 20-26: Desktop(...) returns the handle or raises; nothing catches it.
L_Attach ==
    /\ L_pc = "Attach"
    /\ \E outcome \in {"handle", "raise"} :
         IF outcome = "handle"
         THEN /\ L_desktop' = 1
              /\ L_pc' = "ProjectPath"
         ELSE /\ L_desktop' = L_desktop
              /\ L_pc' = "Raised"
    /\ UNCHANGED <<env, scriptExists, sdkImport, L_port, L_version, L_project_path, cmd,
                   L_releases, L_log>>
    /\ UNCHANGED guiVars

\* A launcher that gave up when the path query failed.
QueryFailed_Abort == [path |-> "", pc |-> "Raised"]

\* Lines 35-37: the except branch empties the path and the script goes on.
QueryFailed == [path |-> "", pc |-> "CheckScript"]

\* Lines 29-37.
L_ProjectPath ==
    /\ L_pc = "ProjectPath"
    /\ \/ \E path \in ProjectPaths :
            /\ L_project_path' = path
            /\ L_log' = Append(L_log,
                   IF Truthy(PyStr(path))
                   THEN Line("Active AEDT project path: %s", <<path>>)
                   ELSE Line("Active AEDT project path: <none / project not saved yet>", <<>>))
            /\ L_pc' = "CheckScript"
       \/ /\ L_project_path' = QueryFailed.path
          /\ L_log' = Append(L_log, Line("Failed to get AEDT project path: %s", <<"e">>))
          /\ L_pc' = QueryFailed.pc
    /\ UNCHANGED <<env, scriptExists, sdkImport, L_port, L_version, L_desktop, cmd, L_releases>>
    /\ UNCHANGED guiVars

\* A script check that logged the missing file and went on to spawn.
ScriptCheckNext_LogOnly(exists) == "Spawn"

\* Lines 50-52: a missing script raises, an existing one lets the script go on.
ScriptCheckNext(exists) == IF exists THEN "Spawn" ELSE "Raised"

\* Lines 49-52: FileNotFoundError ends the script.
L_CheckScript ==
    /\ L_pc = "CheckScript"
    /\ L_pc' = ScriptCheckNext(scriptExists)
    /\ IF scriptExists
       THEN /\ L_log' = L_log
       ELSE /\ L_log' = Append(L_log, Line("optimizer_gui.py not found at: %s", <<GUI_SCRIPT>>))
    /\ UNCHANGED <<env, scriptExists, sdkImport, L_port, L_version, L_desktop, L_project_path,
                   cmd, L_releases>>
    /\ UNCHANGED guiVars

\* Lines 55-64: Popen returns at once (the child runs on its own) or raises.
L_Spawn ==
    /\ L_pc = "Spawn"
    /\ cmd' = BuildCmd(L_project_path)
    /\ \E outcome \in {"started", "raise"} :
         IF outcome = "started"
         THEN /\ guiProc' = "Spawned"
              /\ argv' = Tail(cmd')
              /\ L_log' = Append(L_log, Line("SADEA_GUI launched, PID=%s", <<"pid">>))
         ELSE /\ guiProc' = guiProc
              /\ argv' = argv
              /\ L_log' = Append(L_log, Line("Failed to launch Optimizer GUI: %s", <<"e">>))
    /\ L_pc' = "Release"
    /\ UNCHANGED <<env, scriptExists, sdkImport, L_port, L_version, L_desktop, L_project_path,
                   L_releases>>
    /\ UNCHANGED <<project_path, desktop, app, start_btn, log, run, suspended, runs, session>>

\* Line 67.
L_Release ==
    /\ L_pc = "Release"
    /\ L_releases' = L_releases + 1
    /\ \E outcome \in {"ok", "raise"} :
         L_pc' = IF outcome = "ok" THEN "Exited" ELSE "Raised"
    /\ UNCHANGED <<env, scriptExists, sdkImport, L_port, L_version, L_desktop, L_project_path,
                   cmd, L_log>>
    /\ UNCHANGED guiVars

\* ---------------------------------------------------------------- GUI: data
\* Result curves get_expression_data() may return: two sequences of one length.
FreqCurves(n) == { [i \in 1..n |-> i], [i \in 1..n |-> 2 * i] }
S11Curves(n) == { [i \in 1..n |-> 0 - i], [i \in 1..n |-> i - 20] }

NoSummary == [none |-> TRUE, n |-> 0, entries |-> <<>>]

\* A summary builder without the empty-result check.
NoData_Unchecked(n) == FALSE

\* Line 135: `if n == 0:`
NoData(n) == n = 0

\* A summary builder that lists every point.
MaxToShow_All(n) == n

\* Line 141: max_to_show = min(5, n)
MaxToShow(n) == Min(PreviewLimit, n)

\* Lines 142-143: entry i is f"{i}: Freq = {freqs[i]}, dB(S11) = {s11_db[i]}"
\* (Python indexes from 0, the sequences here from 1).
SummaryEntry(i, freqs, s11_db) == <<i, freqs[i + 1], s11_db[i + 1]>>

\* Lines 140-144: the header with n, then the entries in order.
BuildSummary(freqs, s11_db) ==
    [none |-> FALSE,
     n |-> Len(freqs),
     entries |-> [k \in 1..MaxToShow(Len(freqs)) |-> SummaryEntry(k - 1, freqs, s11_db)]]

\* Line 163: `if summary:` (None is falsy; a built summary is never empty text).
SummaryTruthy(s) == ~s.none

\* ------------------------------------------------------- GUI: run_simulation
DialogStates == {"DialogCritical", "DialogInformation", "DialogWarning"}

\* Bookkeeping of one run_simulation call: its position, the locals of the
\* functions it calls, and what it has done so far.
NewRun(logLen) ==
    [pc |-> "Connecting",
     port |-> PyNone, version |-> PyNone, envRead |-> FALSE,
     attachCalls |-> 0, handle |-> 0, connected |-> "unset",
     solveCalls |-> 0, ok |-> "unset",
     fetchCalls |-> 0, fetch |-> "unset", freqs |-> <<>>, s11_db |-> <<>>,
     indexed |-> {}, summary |-> NoSummary,
     dialogs |-> <<>>, dialogText |-> NoSummary,
     releases |-> 0, logStart |-> logLen,
     raised |-> FALSE]

IdleRun == [NewRun(0) EXCEPT !.pc = "Idle"]

\* Lines 61-62: the import statements run the SDK's module code, which may
\* end normally, raise ImportError (package or name missing), or raise any
\* other exception (a dependency that fails while loading).
ImportOutcomes == {"ok", "ImportError", "Exception"}

\* Line 63: `except ImportError`
ImportCaught(exc) == exc = "ImportError"

\* A run that left the button enabled.
EnabledOnEntry_Left == TRUE

\* Line 154: start_btn.setEnabled(False)
EnabledOnEntry == FALSE

\* Line 176: start_btn.setEnabled(True)
EnabledOnExit == TRUE

\* An except branch that left self.desktop as it was.
DesktopAfterConnectError_Kept(d) == d

\* Line 97: the except branch forgets the handle, attached or not.
DesktopAfterConnectError(d) == 0

\* A cleanup that never found a handle to release.
ReleaseNeeded_Never(d) == FALSE

\* Line 170: `if self.desktop:`
ReleaseNeeded(d) == d # 0

\* A solve step that carried on to the fetch after an exception.
SolveNext_IgnoreRaise(ok) == "Fetching"

\* A solve step that gave up on a False status.
SolveNext_AbortOnFalse(ok) == IF ok \in {"raised", "False"} THEN "DialogWarning" ELSE "Fetching"

\* Lines 114-116 against 111-113: only an exception ends the solve step.
SolveNext(ok) == IF ok = "raised" THEN "DialogWarning" ELSE "Fetching"

\* Lines 157-160: connect returned False.
ConnectFailed(r, lines) ==
    /\ log' = log \o lines \o <<Line("Aborting simulation because connection failed.", <<>>)>>
    /\ run' = [r EXCEPT !.connected = "False", !.pc = "DialogCritical",
                       !.dialogs = Append(@, "critical")]

\* main(), lines 179-187, and MainWindow.__init__/init_ui.
Main ==
    /\ guiProc = "Spawned"
    /\ guiProc' = "Running"
    /\ project_path' = IF Len(argv) > 1 THEN PyStr(argv[2]) ELSE PyNone
    /\ desktop' = 0
    /\ app' = 0
    /\ start_btn' = TRUE
    /\ log' = <<Line("Optimizer GUI started.", <<>>)>> \o
              (IF Truthy(project_path')
               THEN <<Line("Received AEDT project path:", <<project_path'.val>>)>>
               ELSE <<>>)
    /\ UNCHANGED <<env, scriptExists, sdkImport, argv, run, suspended, runs, session>>
    /\ UNCHANGED launcherVars

\* Lines 39, 152-156: a click reaches run_simulation only through an enabled
\* button, from the main event loop or from the event loop of an open dialog.
Click ==
    /\ guiProc = "Running"
    /\ start_btn
    /\ run.pc \in {"Idle"} \cup DialogStates
    /\ runs < MaxRuns
    /\ Len(suspended) + (IF run.pc = "Idle" THEN 0 ELSE 1) < MaxDepth
    /\ runs' = runs + 1
    /\ suspended' = IF run.pc = "Idle" THEN suspended ELSE Append(suspended, run)
    /\ start_btn' = EnabledOnEntry
    /\ log' = Append(log, Line("Attempting to connect to open AEDT session...", <<>>))
    /\ run' = NewRun(Len(log))
    /\ UNCHANGED <<env, scriptExists, sdkImport, guiProc, argv, project_path, desktop, app,
                   session>>
    /\ UNCHANGED launcherVars

\* connect_to_open_aedt, lines 60-76: the import and the environment.
ConnectBegin ==
    /\ run.pc = "Connecting"
    /\ IF sdkImport # "ok"
       THEN IF ImportCaught(sdkImport)
            THEN ConnectFailed(run,
                     <<Line("ERROR: PyAEDT is not installed in this Python environment.", <<>>),
                       Line("str(e)", <<"e">>)>>)
            ELSE \* no handler up to run_simulation's finally block
                 /\ log' = log
                 /\ run' = [run EXCEPT !.raised = TRUE, !.pc = "Finally"]
       ELSE LET port == GuiPort(env)
                version == GuiVersion(env)
                r == [run EXCEPT !.port = port, !.version = version, !.envRead = TRUE]
            IN  IF PortMissing(port)
                THEN ConnectFailed(r,
                         <<Line("ERROR: PYAEDT_SCRIPT_PORT not found in environment.", <<>>),
                           Line("This GUI must be launched from the AEDT PyAEDT Extension button.", <<>>)>>)
                ELSE /\ log' = Append(log, Line("Connecting to AEDT on gRPC port",
                                                <<port.val, version.val>>))
                     /\ run' = [r EXCEPT !.pc = "Attaching"]
    /\ UNCHANGED <<env, scriptExists, sdkImport, guiProc, argv, project_path, desktop, app,
                   start_btn, suspended, runs, session>>
    /\ UNCHANGED launcherVars

\* Lines 78-84 and 95-99: int(port) is evaluated before Desktop is called.
Attach ==
    /\ run.pc = "Attaching"
    /\ IF IntRaises(run.port)
       THEN /\ desktop' = DesktopAfterConnectError(desktop)
            /\ app' = 0
            /\ session' = session
            /\ ConnectFailed(run, <<Line("ERROR: Failed to attach to AEDT:", <<"e">>)>>)
       ELSE \E outcome \in {"handle", "raise"} :
              LET r == [run EXCEPT !.attachCalls = @ + 1] IN
              IF outcome = "handle"
              THEN LET h == Cardinality(session.attached) + 1 IN
                   /\ desktop' = h
                   /\ app' = app
                   /\ session' = [session EXCEPT !.attached = @ \cup {h}]
                   /\ run' = [r EXCEPT !.handle = h, !.pc = "ResolvingDesign"]
                   /\ log' = log
              ELSE /\ desktop' = DesktopAfterConnectError(desktop)
                   /\ app' = 0
                   /\ session' = session
                   /\ ConnectFailed(r, <<Line("ERROR: Failed to attach to AEDT:", <<"e">>)>>)
    /\ UNCHANGED <<env, scriptExists, sdkImport, guiProc, argv, project_path, start_btn,
                   suspended, runs>>
    /\ UNCHANGED launcherVars

\* Lines 86-93 and 95-99: get_pyaedt_app and the names of project and design.
ResolveDesign ==
    /\ run.pc = "ResolvingDesign"
    /\ \E outcome \in {"app", "raise"} :
         IF outcome = "app"
         THEN /\ app' = desktop
              /\ desktop' = desktop
              /\ log' = Append(log, Line("Connected to project", <<"project_name", "design_name">>))
              /\ run' = [run EXCEPT !.connected = "True", !.pc = "Solving"]
         ELSE /\ desktop' = DesktopAfterConnectError(desktop)
              /\ app' = 0
              /\ ConnectFailed(run, <<Line("ERROR: Failed to attach to AEDT:", <<"e">>)>>)
    /\ UNCHANGED <<env, scriptExists, sdkImport, guiProc, argv, project_path, start_btn,
                   suspended, runs, session>>
    /\ UNCHANGED launcherVars

\* Lines 162-166: the dialog that reports the summary or its absence.
ShowResult(r, summary) ==
    IF SummaryTruthy(summary)
    THEN [r EXCEPT !.summary = summary, !.pc = "DialogInformation",
                   !.dialogs = Append(@, "information"), !.dialogText = summary]
    ELSE [r EXCEPT !.summary = summary, !.pc = "DialogWarning",
                   !.dialogs = Append(@, "warning")]

\* run_hfss_simulation_and_get_s11_summary, lines 103-116: analyze().
Solve ==
    /\ run.pc = "Solving"
    /\ IF app = 0
       THEN /\ log' = Append(log, Line("ERROR: PyAEDT app not available.", <<>>))
            /\ run' = ShowResult(run, NoSummary)
       ELSE \E ok \in {"True", "False", "raised"} :
              LET r == [run EXCEPT !.solveCalls = @ + 1, !.ok = ok]
                  starting == Line("Starting HFSS simulation via app.analyze()...", <<>>)
              IN
              /\ log' = log \o
                   (CASE ok = "True" ->
                           <<starting, Line("HFSS analyze() returned:", <<"True">>)>>
                      [] ok = "False" ->
                           <<starting, Line("HFSS analyze() returned:", <<"False">>),
                             Line("WARNING: analyze() returned False (simulation may have failed).", <<>>)>>
                      [] ok = "raised" ->
                           <<starting, Line("ERROR during analyze():", <<"e">>)>>)
              /\ run' = IF SolveNext(ok) = "Fetching"
                        THEN [r EXCEPT !.pc = "Fetching"]
                        ELSE ShowResult(r, NoSummary)
    /\ UNCHANGED <<env, scriptExists, sdkImport, guiProc, argv, project_path, desktop, app,
                   start_btn, suspended, runs, session>>
    /\ UNCHANGED launcherVars

\* Lines 119-148: nominal_sweep, get_solution_data, get_expression_data, summary.
Fetch ==
    /\ run.pc = "Fetching"
    /\ LET retrieving == Line("Retrieving dB(S(1,1)) solution data...", <<>>)
           failed == Line("ERROR retrieving solution data:", <<"e">>)
           r0 == [run EXCEPT !.fetchCalls = @ + 1]
       IN
       \/ /\ log' = log \o <<retrieving, failed>>
          /\ run' = ShowResult([r0 EXCEPT !.fetch = "raised"], NoSummary)
       \/ \E n \in 0..MaxPoints : \E freqs \in FreqCurves(n) : \E s11_db \in S11Curves(n) :
            LET r == [r0 EXCEPT !.fetch = "data", !.freqs = freqs, !.s11_db = s11_db] IN
            IF NoData(n)
            THEN /\ log' = log \o <<retrieving,
                         Line("No data points returned from get_expression_data().", <<>>)>>
                 /\ run' = ShowResult(r, NoSummary)
            ELSE IF MaxToShow(n) > n
            THEN \* freqs[n] is out of range: IndexError, caught at line 146
                 /\ log' = log \o <<retrieving, failed>>
                 /\ run' = ShowResult([r EXCEPT !.indexed = 0..n], NoSummary)
            ELSE /\ log' = Append(log, retrieving)
                 /\ run' = ShowResult([r EXCEPT !.indexed = 0..(MaxToShow(n) - 1)],
                                      BuildSummary(freqs, s11_db))
    /\ UNCHANGED <<env, scriptExists, sdkImport, guiProc, argv, project_path, desktop, app,
                   start_btn, suspended, runs, session>>
    /\ UNCHANGED launcherVars

\* The user dismisses the modal dialog: QMessageBox.* returns (lines 159-166)
\* and control enters the finally block.
CloseDialog ==
    /\ run.pc \in DialogStates
    /\ run' = [run EXCEPT !.pc = "Finally"]
    /\ UNCHANGED <<env, scriptExists, sdkImport, guiProc, argv, project_path, desktop, app,
                   start_btn, log, suspended, runs, session>>
    /\ UNCHANGED launcherVars

\* Lines 168-175: release_desktop on whatever self.desktop holds.
Finally ==
    /\ run.pc = "Finally"
    /\ IF ReleaseNeeded(desktop)
       THEN \E outcome \in {"ok", "raise"} :
              /\ session' = [session EXCEPT !.releaseCalls = Append(@, desktop)]
              /\ run' = [run EXCEPT !.releases = @ + 1, !.pc = "Reenable"]
              /\ log' = Append(log,
                     IF outcome = "ok"
                     THEN Line("Released PyAEDT Desktop connection.", <<>>)
                     ELSE Line("WARNING: Failed to release Desktop cleanly:", <<"e">>))
       ELSE /\ session' = session
            /\ run' = [run EXCEPT !.pc = "Reenable"]
            /\ log' = log
    /\ UNCHANGED <<env, scriptExists, sdkImport, guiProc, argv, project_path, desktop, app,
                   start_btn, suspended, runs>>
    /\ UNCHANGED launcherVars

\* Line 176, then run_simulation returns to the event loop that called it,
\* or the exception the finally block was entered with leaves the slot: PyQt5
\* aborts the process on an exception that escapes a slot.
Reenable ==
    /\ run.pc = "Reenable"
    /\ start_btn' = EnabledOnExit
    /\ IF run.raised
       THEN /\ guiProc' = "Crashed"
            /\ run' = [run EXCEPT !.pc = "Propagated"]
            /\ suspended' = suspended
       ELSE /\ guiProc' = guiProc
            /\ run' = IF suspended = <<>> THEN IdleRun ELSE suspended[Len(suspended)]
            /\ suspended' = IF suspended = <<>> THEN suspended
                            ELSE SubSeq(suspended, 1, Len(suspended) - 1)
    /\ UNCHANGED <<env, scriptExists, sdkImport, argv, project_path, desktop, app,
                   log, runs, session>>
    /\ UNCHANGED launcherVars

\* ------------------------------------------------------------ specification
Init ==
    /\ env \in Environments
    /\ scriptExists \in BOOLEAN
    /\ sdkImport \in ImportOutcomes
    /\ L_pc = "Locator"
    /\ L_port = PyNone
    /\ L_version = PyNone
    /\ L_desktop = 0
    /\ L_project_path = ""
    /\ cmd = <<>>
    /\ L_releases = 0
    /\ L_log = <<>>
    /\ guiProc = "NotStarted"
    /\ argv = <<>>
    /\ project_path = PyNone
    /\ desktop = 0
    /\ app = 0
    /\ start_btn = TRUE
    /\ log = <<>>
    /\ run = IdleRun
    /\ suspended = <<>>
    /\ runs = 0
    /\ session = [attached |-> {}, releaseCalls |-> <<>>]

Next ==
    \/ L_ReadLocator
    \/ L_Attach
    \/ L_ProjectPath
    \/ L_CheckScript
    \/ L_Spawn
    \/ L_Release
    \/ Main
    \/ Click
    \/ ConnectBegin
    \/ Attach
    \/ ResolveDesign
    \/ Solve
    \/ Fetch
    \/ CloseDialog
    \/ Finally
    \/ Reenable

Spec == Init /\ [][Next]_vars

TypeOK ==
    /\ run.pc \in {"Idle", "Connecting", "Attaching", "ResolvingDesign", "Solving", "Fetching",
                    "Finally", "Reenable", "Propagated"} \cup DialogStates
    /\ start_btn \in BOOLEAN
    /\ runs \in 0..MaxRuns
    /\ Len(suspended) < MaxDepth

\* -------------------------------------------------------------- vocabulary
\* The log lines appended since the current run began.
RunLog == SubSeq(log, run.logStart + 1, Len(log))

HasLine(lines, msg) == \E i \in DOMAIN lines : lines[i].msg = msg

\* How often handle h was passed to release_desktop.
ReleaseCount(h) == Cardinality({ i \in DOMAIN session.releaseCalls : session.releaseCalls[i] = h })

\* Handles attached and not yet passed to release_desktop.
LiveHandles == { h \in session.attached : ReleaseCount(h) = 0 }

\* connect_to_open_aedt has returned to run_simulation (it has not when an
\* exception left it).
ConnectReturned ==
    /\ ~run.raised
    /\ run.pc \notin {"Idle", "Connecting", "Attaching", "ResolvingDesign"}

\* Everything of the run but the re-enabling of the button has happened.
RunEnding == run.pc = "Reenable"

\* The states of the sequence as section 4.4 of the specification names them;
\* a run that an exception is leaving is in Error.
Phase(r) ==
    IF r.raised THEN "Error" ELSE
    CASE r.pc = "Idle" -> "Idle"
      [] r.pc \in {"Connecting", "Attaching", "ResolvingDesign"} -> "Connecting"
      [] r.pc = "Solving" -> "Solving"
      [] r.pc = "Fetching" -> "FetchingResults"
      [] r.pc = "DialogInformation" -> "Done"
      [] r.pc \in {"DialogCritical", "DialogWarning"} -> "Error"
      [] r.pc \in {"Finally", "Reenable"} -> "Cleanup"

PhaseOrder ==
    {<<"Idle", "Connecting">>, <<"Connecting", "Solving">>, <<"Connecting", "Error">>,
     <<"Solving", "FetchingResults">>, <<"Solving", "Error">>,
     <<"FetchingResults", "Done">>, <<"FetchingResults", "Error">>,
     <<"Done", "Cleanup">>, <<"Error", "Cleanup">>, <<"Cleanup", "Idle">>}

\* ------------------------------------------------------------------ claims

\* C1 (as claimed): when a run ends, the handle its Desktop attach returned
\* has been passed to release_desktop, whichever later step failed (the
\* resolution of the active design included), and a run whose attach
\* returned no handle has not called release_desktop.
C1_HandleReleasedOnEveryExit ==
    RunEnding =>
        /\ (run.handle # 0 => ReleaseCount(run.handle) >= 1)
        /\ (run.handle = 0 => run.releases = 0)

\* C2: a run that reached the solve step calls release_desktop exactly once,
\* at its end, for every outcome of analyze() and of the fetch; no run calls
\* it more than once.
C2_ReleaseExactlyOnce ==
    /\ run.releases <= 1
    /\ (run.solveCalls > 0 /\ ~RunEnding => run.releases = 0)
    /\ (run.solveCalls > 0 /\ RunEnding =>
            /\ run.releases = 1
            /\ run.handle # 0
            /\ ReleaseCount(run.handle) = 1)

C2_Witness ==
    /\ RunEnding
    /\ run.ok = "False"
    /\ run.fetch = "raised"
    /\ run.releases = 1

\* C3 (as claimed): with PYAEDT_SCRIPT_PORT or PYAEDT_SCRIPT_VERSION missing,
\* connect never calls Desktop and returns failure with self.desktop None.
C3_AnyMissingVariableFailsConnect ==
    (PORT \notin DOMAIN env \/ VERSION \notin DOMAIN env) =>
        /\ run.attachCalls = 0
        /\ (ConnectReturned => run.connected = "False" /\ desktop = 0)

\* C3 (amended): with PYAEDT_SCRIPT_PORT missing or empty, whatever the
\* version variable, connect never calls Desktop, never succeeds (whenever it
\* returns, it returns failure) and self.desktop is None; no handle is ever
\* attached.
C3_MissingPortFailsConnect ==
    (PORT \notin DOMAIN env \/ (PORT \in DOMAIN env /\ env[PORT] = "")) =>
        /\ run.attachCalls = 0
        /\ session.attached = {}
        /\ desktop = 0
        /\ run.connected # "True"
        /\ run.pc \notin {"Attaching", "ResolvingDesign", "Solving", "Fetching"}
        /\ (ConnectReturned => run.connected = "False")

C3_Witness ==
    /\ PORT \notin DOMAIN env
    /\ VERSION \in DOMAIN env
    /\ run.envRead
    /\ run.pc = "DialogCritical"
    /\ desktop = 0

\* C4: the button is disabled in every state of a run, from its first step
\* to the release, and enabled whenever no run is in progress, whatever
\* ended the last run.
C4_ButtonDisabledExactlyDuringRun ==
    guiProc = "Running" => (start_btn <=> run.pc = "Idle")

C4_Witness ==
    /\ run.pc = "Idle"
    /\ start_btn
    /\ runs >= 1
    /\ log[Len(log)].msg = "WARNING: Failed to release Desktop cleanly:"

\* C5 (as claimed): no run_simulation call begins while another is in
\* progress, and at most one attached handle is unreleased at any time.
C5_OneRunOneLiveHandle ==
    /\ suspended = <<>>
    /\ Cardinality(LiveHandles) <= 1

\* C6: analyze() is called only in a run whose connect succeeded, the fetch
\* only after analyze() returned, the information dialog only after a fetch
\* of at least one point; a failed step is followed by no solve or fetch,
\* and the run moves only along Idle, Connecting, Solving, FetchingResults,
\* Done/Error, cleanup, Idle.
C6_StateInv ==
    /\ run.solveCalls <= 1
    /\ run.fetchCalls <= 1
    /\ (run.solveCalls > 0 => run.connected = "True" /\ run.attachCalls = 1 /\ run.handle # 0)
    /\ (run.fetchCalls > 0 => run.solveCalls = 1 /\ run.ok \in {"True", "False"})
    /\ (run.pc = "DialogInformation" => run.fetch = "data" /\ Len(run.freqs) >= 1)
    /\ (run.connected = "False" => run.solveCalls = 0 /\ run.fetchCalls = 0)
    /\ (run.ok = "raised" => run.fetchCalls = 0)
    /\ (run.fetch = "raised" => run.pc \notin {"DialogInformation"})

C6_StepOrder ==
    [](C6_StateInv) /\
    [][Phase(run) = Phase(run') \/ <<Phase(run), Phase(run')>> \in PhaseOrder]_vars

C6_Witness ==
    /\ run.pc = "DialogInformation"
    /\ run.ok = "True"
    /\ run.connected = "True"

\* C7: after analyze() returned False the warning is in the log and the run
\* is at the fetch step or has called the fetch.
C7_FalseStatusStillFetches ==
    run.ok = "False" =>
        /\ HasLine(RunLog, "WARNING: analyze() returned False (simulation may have failed).")
        /\ (run.pc = "Fetching" \/ run.fetchCalls = 1)

C7_Witness ==
    /\ run.ok = "False"
    /\ run.fetch = "data"
    /\ run.pc = "DialogInformation"

\* C8: after a fetch of zero points the no-data line is in the log, there
\* is no summary and no information dialog, no fetch error was logged, and
\* no element of the sequences was read.
C8_ZeroPointsNoIndexing ==
    (run.fetch = "data" /\ Len(run.freqs) = 0) =>
        /\ HasLine(RunLog, "No data points returned from get_expression_data().")
        /\ ~HasLine(RunLog, "ERROR retrieving solution data:")
        /\ run.summary.none
        /\ run.indexed = {}
        /\ run.dialogs = <<"warning">>

C8_Witness ==
    /\ run.fetch = "data"
    /\ Len(run.freqs) = 0
    /\ run.pc = "DialogWarning"

\* C9: after a fetch of N > 0 points the information dialog shows min(5, N)
\* entries, entry i being (i, freqs[i], s11_db[i]) for i = 0 .. min(5, N) - 1.
C9_PreviewFirstFive ==
    (run.fetch = "data" /\ Len(run.freqs) > 0) =>
        LET n == Len(run.freqs)
            shown == run.dialogText.entries
        IN  /\ run.dialogs = <<"information">>
            /\ ~run.dialogText.none
            /\ Len(shown) = (IF n < 5 THEN n ELSE 5)
            /\ \A i \in 0..(Len(shown) - 1) :
                   shown[i + 1] = <<i, run.freqs[i + 1], run.s11_db[i + 1]>>

C9_Witness ==
    /\ run.pc = "DialogInformation"
    /\ Len(run.freqs) > 5
    /\ Len(run.dialogText.entries) = 5

\* What C10 expects of both processes: the two variables or the defaults.
BothOrDefault ==
    IF {PORT, VERSION} \subseteq DOMAIN env
    THEN [port |-> PyStr(env[PORT]), version |-> PyStr(env[VERSION])]
    ELSE [port |-> PyInt("0"), version |-> PyStr("2025.2")]

LauncherLocatorRead == L_pc # "Locator"

\* C10 (as claimed): launcher and GUI both use (port, version) of the
\* environment if both are set and (0, "2025.2") in every other case.
C10_BothProcessesBothOrDefault ==
    /\ (LauncherLocatorRead => L_port = BothOrDefault.port /\ L_version = BothOrDefault.version)
    /\ (run.envRead => run.port = BothOrDefault.port /\ run.version = BothOrDefault.version)

\* C10 (amended): the launcher uses both variables or the defaults
\* (0, "2025.2"); the GUI takes each variable on its own: the port from
\* PYAEDT_SCRIPT_PORT with no default (None when missing), the version from
\* PYAEDT_SCRIPT_VERSION or "2025.2", and calls Desktop only with a port
\* that is set.
C10_LauncherBothOrDefaultGuiEachAlone ==
    /\ (LauncherLocatorRead => L_port = BothOrDefault.port /\ L_version = BothOrDefault.version)
    /\ (run.envRead =>
            /\ run.port = (IF PORT \in DOMAIN env THEN PyStr(env[PORT]) ELSE PyNone)
            /\ run.version = (IF VERSION \in DOMAIN env THEN PyStr(env[VERSION]) ELSE PyStr("2025.2")))
    /\ (run.attachCalls > 0 => PORT \in DOMAIN env /\ run.port = PyStr(env[PORT]))

C10_Witness ==
    /\ PORT \in DOMAIN env
    /\ VERSION \notin DOMAIN env
    /\ L_port = PyInt("0")
    /\ run.envRead
    /\ run.port = PyStr("50051")
    /\ run.attachCalls = 1

\* C11: a run that found no port value (unset or empty) has logged the
\* PYAEDT_SCRIPT_PORT error and the launch-from-the-extension line, has made
\* no Desktop call, no solve and no fetch, and shows the critical dialog only.
C11_NoPortAbortsWithMessage ==
    (run.envRead /\ (run.port = PyNone \/ run.port = PyStr(""))) =>
        /\ HasLine(RunLog, "ERROR: PYAEDT_SCRIPT_PORT not found in environment.")
        /\ HasLine(RunLog, "This GUI must be launched from the AEDT PyAEDT Extension button.")
        /\ ~HasLine(RunLog, "Connecting to AEDT on gRPC port")
        /\ run.pc \notin {"Attaching", "ResolvingDesign", "Solving", "Fetching"}
        /\ run.attachCalls = 0
        /\ run.solveCalls = 0
        /\ run.fetchCalls = 0
        /\ run.dialogs = <<"critical">>

C11_Witness ==
    /\ run.envRead
    /\ run.port = PyNone
    /\ run.pc = "Reenable"
    /\ run.dialogs = <<"critical">>

\* C12 (as claimed): no exception of a step leaves run_simulation, and the GUI
\* process is never ended by one.
C12_NoExceptionLeavesRun ==
    /\ ~run.raised
    /\ guiProc # "Crashed"

\* The launcher's path query raised (its except branch logged it).
QueryRaised == HasLine(L_log, "Failed to get AEDT project path: %s")

\* C13: after a failed path query the failure is logged, the path is empty,
\* and the launcher is at the script check or beyond it: it stops only for a
\* missing script or a failing release, and spawns with no path argument.
C13_FailedQueryProceeds ==
    QueryRaised =>
        /\ L_project_path = ""
        /\ L_pc \in {"CheckScript", "Spawn", "Release", "Exited", "Raised"}
        /\ (L_pc = "Raised" => ~scriptExists \/ L_releases = 1)
        /\ (L_pc \in {"Release", "Exited"} => cmd = <<PYTHON_EXE, GUI_SCRIPT>>)

C13_Witness ==
    /\ QueryRaised
    /\ guiProc = "Spawned"
    /\ L_pc = "Release"

\* C14: a GUI process exists only if the script file exists; with the file
\* missing the launcher never builds or runs the command and ends at the
\* script check with the file-not-found failure.
C14_MissingScriptAborts ==
    /\ (guiProc # "NotStarted" => scriptExists)
    /\ (~scriptExists =>
            /\ cmd = <<>>
            /\ L_pc \in {"Locator", "Attach", "ProjectPath", "CheckScript", "Raised"})
    /\ (HasLine(L_log, "optimizer_gui.py not found at: %s") => ~scriptExists /\ L_pc = "Raised")

C14_Witness ==
    /\ ~scriptExists
    /\ L_desktop = 1
    /\ L_pc = "Raised"
    /\ HasLine(L_log, "optimizer_gui.py not found at: %s")

\* C15: the command run by the launcher is the interpreter, the script and,
\* only for a non-empty project path, that path; the GUI's arguments are the
\* command's, its project path is that argument or None; and the launcher's
\* release step never waits for the GUI.
C15_PathIsOneOptionalArgument ==
    /\ (L_pc \in {"Release", "Exited"} \/ (L_pc = "Raised" /\ L_releases = 1) =>
            cmd = <<PYTHON_EXE, GUI_SCRIPT>> \o
                  (IF L_project_path = "" THEN <<>> ELSE <<L_project_path>>))
    /\ (guiProc # "NotStarted" =>
            /\ argv[1] = GUI_SCRIPT
            /\ Len(argv) = (IF L_project_path = "" THEN 1 ELSE 2)
            /\ (L_project_path # "" => argv[2] = L_project_path))
    /\ (guiProc \in {"Running", "Crashed"} =>
            project_path = (IF L_project_path = "" THEN PyNone ELSE PyStr(L_project_path)))
    /\ (L_pc = "Release" => ENABLED L_Release)

C15_Witness ==
    /\ L_pc = "Exited"
    /\ guiProc = "Running"
    /\ run.pc = "Solving"
    /\ project_path = PyStr("C:/proj/antenna.aedt")
    /\ Len(cmd) = 3

\* C16 (as claimed): a run shows exactly one dialog: the critical one if
\* connect did not succeed, the information one if there is a summary, the
\* warning one otherwise; release_desktop is called only after the dialog.
C16_OneDialogPerRun ==
    /\ Len(run.dialogs) <= 1
    /\ (run.releases > 0 => Len(run.dialogs) = 1)
    /\ (RunEnding =>
            run.dialogs = (IF run.connected # "True" THEN <<"critical">>
                           ELSE IF ~run.summary.none THEN <<"information">>
                           ELSE <<"warning">>))

\* C17: no handle is passed to release_desktop twice, in one run or across
\* runs, and only attached handles are passed to it.
C17_NoHandleReleasedTwice ==
    /\ \A h \in session.attached : ReleaseCount(h) <= 1
    /\ \A i \in DOMAIN session.releaseCalls : session.releaseCalls[i] \in session.attached

C17_Witness ==
    /\ runs = 2
    /\ RunEnding
    /\ run.attachCalls = 1
    /\ run.handle = 0
    /\ run.releases = 0
    /\ ReleaseCount(1) = 1

\* C18 (as claimed): a launcher that attached has called release_desktop
\* exactly once when it ends, however it ends.
C18_LauncherReleasesOnce ==
    (L_desktop = 1 /\ L_pc \in {"Exited", "Raised"}) => L_releases = 1

====
